---- MODULE Spec2Model ----
(***************************************************************************)
(* Model of src/app.py: the CRM activity fetcher                           *)
(* (fetch_paginated_activities) driven by a mock Close "activity"          *)
(* endpoint, and the follow-up workflow (run_followup_workflow).           *)
(*                                                                         *)
(* Time is abstract: a timestamp is an integer, larger = more recent.      *)
(* date_created (what the endpoint filters on) and activity_at (what the   *)
(* fetcher compares) are one timestamp per record, as in the data model of *)
(* the specification.                                                      *)
(***************************************************************************)
EXTENDS Integers, Sequences, FiniteSets, TLC

\* ---------------------------------------------------------------- bounds
\* Timestamps range over Horizon-1 .. Horizon+TimeSpan.
TimeSpan == 2
\* Timestamps a scripted (mock) page may carry: Horizon+1 .. Horizon+MockSpan.
MockSpan == 2
\* Page requests one invocation may issue against the scripted server.
MaxRequests == 3
\* Largest activity collection the filtering server holds.
MaxRecords == 11
\* Largest activity collection under SpecTermination.
MaxLive == 4

\* ------------------------------------------------------ program constants
\* all_activities[:10]
MaxReturned == 10
\* current_start_date = datetime.now() - timedelta(days=180), in abstract
\* time units: the lookback horizon.
Horizon == 1

Timestamps == (Horizon - 1)..(Horizon + TimeSpan)
MockTimes == (Horizon + 1)..(Horizon + MockSpan)
\* Records per scripted page: enough for MaxRequests pages to exceed the cap.
MaxPageLen == (MaxReturned \div MaxRequests) + 1
\* Page sizes (_limit) of the filtering server: up to more than any collection.
PageSizes == 1..(MaxRecords + 1)

Min(a, b) == IF a < b THEN a ELSE b

\* None is the empty tuple, a date t is <<t>>.
None == <<>>

VARIABLES
    pc,                   \* "loop", "await", "returned", "failed"
    first_iteration,
    offset,
    pages,
    first_iteration_date, \* None or <<t>>
    current_start_date,
    all_activities,
    result,               \* value returned to the caller
    requests,             \* activity_params of every client.get, in order
    responses,            \* what every client.get produced, in order
    collection,           \* filtering server: timestamps, most recent first
    pageSize,             \* filtering server: records per page
    wfpc,                 \* position in run_followup_workflow
    calls,                \* functions the workflow has called, in order
    insights,
    crm_data,
    selected,
    email_text,
    transcript,
    select_crm_arg        \* crm_data as passed to gpt_select_content

fetcherVars == <<pc, first_iteration, offset, pages, first_iteration_date,
                 current_start_date, all_activities, result, requests,
                 responses>>
serverVars == <<collection, pageSize>>
workflowVars == <<wfpc, calls, insights, crm_data, selected, email_text,
                  transcript, select_crm_arg>>
vars == <<fetcherVars, serverVars, workflowVars>>

\* ------------------------------------------------------------- fetcher

\* Variant: the first-iteration flag is ignored and every request filters
\* date_created__gt.
ActivityParamsAlwaysAfter(first, start, off) ==
    [date_created__gt |-> <<start>>, date_created__lt |-> None, skip |-> off]

\* activity_params: first iteration filters date_created__gt, later ones
\* date_created__lt; an absent key is None.
ActivityParams(first, start, off) ==
    IF first
    THEN [date_created__gt |-> <<start>>, date_created__lt |-> None, skip |-> off]
    ELSE [date_created__gt |-> None, date_created__lt |-> <<start>>, skip |-> off]

\* first_iteration_date as compared at line 115: data[0] on the first page.
TieReference(first, fid, data) ==
    IF first THEN <<data[1].activity_at>> ELSE fid

LastActivityDate(data) == data[Len(data)].activity_at

\* Variant: the reset of line 120 is missing.
NextOffsetNeverReset(off, tieRef, data) == off + Len(data)

\* offset after lines 115-120.
NextOffset(off, tieRef, data) ==
    IF <<LastActivityDate(data)>> = tieRef THEN off + Len(data) ELSE 0

\* first_iteration_date after lines 115-121.
NextTieReference(tieRef, data) ==
    IF <<LastActivityDate(data)>> = tieRef THEN tieRef ELSE <<LastActivityDate(data)>>

\* Variant: line 124 is missing, the cursor never advances.
NextStartDateKept(start, data) == start

\* current_start_date after line 124.
NextStartDate(start, data) == LastActivityDate(data)

\* Variant: line 128 is missing, has_more is ignored.
ContinueLoopIgnoringHasMore(data, has_more) == data # <<>>

\* The loop goes round again: the page was not empty (line 105) and the
\* response said has_more (line 128).
ContinueLoop(data, has_more) == data # <<>> /\ has_more

\* Variant: the slice is missing.
ReturnValueUntruncated(all) == all

\* return all_activities[:10]
ReturnValue(all) == SubSeq(all, 1, Min(MaxReturned, Len(all)))

\* Variant: the handler swallows the error and returns what was accumulated.
RaisedValuePartial(all) == SubSeq(all, 1, Min(MaxReturned, Len(all)))

\* What the caller gets when the except clause re-raises: no list at all.
RaisedValue(all) == <<>>

FetcherInit ==
    /\ pc = "loop"
    /\ first_iteration = TRUE
    /\ offset = 0
    /\ pages = 0
    /\ first_iteration_date = None
    /\ current_start_date = Horizon
    /\ all_activities = <<>>
    /\ result = <<>>
    /\ requests = <<>>
    /\ responses = <<>>

\* Lines 88-102: build activity_params and call client.get.
IssueRequest ==
    /\ pc = "loop"
    /\ requests' = Append(requests,
                          ActivityParams(first_iteration, current_start_date, offset))
    /\ pc' = "await"
    /\ UNCHANGED <<first_iteration, offset, pages, first_iteration_date,
                   current_start_date, all_activities, result, responses>>

\* Lines 103-129 and 137: client.get returned data and has_more.
ReceivePage(data, has_more) ==
    /\ pc = "await"
    /\ responses' = Append(responses,
                           [data |-> data, has_more |-> has_more, failed |-> FALSE])
    /\ IF data = <<>>
       THEN /\ UNCHANGED <<first_iteration, offset, pages, first_iteration_date,
                           current_start_date, all_activities>>
            /\ pc' = "returned"
            /\ result' = ReturnValue(all_activities)
       ELSE LET tieRef == TieReference(first_iteration, first_iteration_date, data)
            IN /\ all_activities' = all_activities \o data
               /\ offset' = NextOffset(offset, tieRef, data)
               /\ first_iteration_date' = NextTieReference(tieRef, data)
               /\ pages' = pages + 1
               /\ current_start_date' = NextStartDate(current_start_date, data)
               /\ first_iteration' = FALSE
               /\ IF ContinueLoop(data, has_more)
                  THEN pc' = "loop" /\ UNCHANGED result
                  ELSE pc' = "returned" /\ result' = ReturnValue(all_activities')
    /\ UNCHANGED requests

\* Lines 133-135: client.get raised; the handler prints and re-raises.
TransportFailure ==
    /\ pc = "await"
    /\ responses' = Append(responses,
                           [data |-> <<>>, has_more |-> FALSE, failed |-> TRUE])
    /\ pc' = "failed"
    /\ result' = RaisedValue(all_activities)
    /\ UNCHANGED <<first_iteration, offset, pages, first_iteration_date,
                   current_start_date, all_activities, requests>>

\* ------------------------------------------------- scripted (mock) server

RECURSIVE SumLen(_)
SumLen(rs) == IF rs = <<>> THEN 0 ELSE Len(rs[1].data) + SumLen(Tail(rs))

\* Timestamp sequences, most recent first, of length n over the set T.
RECURSIVE NonIncreasing(_, _)
NonIncreasing(T, n) ==
    IF n = 0
    THEN {<<>>}
    ELSE UNION {{Append(s, t) : t \in {u \in T : n = 1 \/ u <= s[n - 1]}} :
                s \in NonIncreasing(T, n - 1)}

\* A page carrying the timestamps ts; ids continue after the records served.
MockPage(ts, served) ==
    [i \in 1..Len(ts) |-> [id |-> served + i, activity_at |-> ts[i]]]

\* The scripted server answers with any page and any has_more.
MockRespond ==
    \E n \in 0..MaxPageLen : \E ts \in NonIncreasing(MockTimes, n) :
        \E has_more \in BOOLEAN :
            /\ ReceivePage(MockPage(ts, SumLen(responses)), has_more)
            /\ UNCHANGED <<serverVars, workflowVars>>

MockIssue ==
    /\ Len(requests) < MaxRequests
    /\ IssueRequest
    /\ UNCHANGED <<serverVars, workflowVars>>

MockFail == TransportFailure /\ UNCHANGED <<serverVars, workflowVars>>

WorkflowIdle ==
    /\ wfpc = "idle"
    /\ calls = <<>>
    /\ insights = None
    /\ crm_data = None
    /\ selected = None
    /\ email_text = None
    /\ transcript = "t1"
    /\ select_crm_arg = None

Init ==
    /\ FetcherInit
    /\ collection = <<>>
    /\ pageSize = 1
    /\ WorkflowIdle

Next == MockIssue \/ MockRespond \/ MockFail

Spec == Init /\ [][Next]_vars

\* ------------------------------------------------------ filtering server
\* A server that holds the lead's activities, most recent first, applies the
\* request's strict timestamp filter, then _skip, then its page size.

Satisfies(t, req) ==
    /\ req.date_created__gt # None => t > req.date_created__gt[1]
    /\ req.date_created__lt # None => t < req.date_created__lt[1]

\* Indices of the records matching the filter, in server order.
Matching(coll, req) ==
    SelectSeq([i \in 1..Len(coll) |-> i], LAMBDA i : Satisfies(coll[i], req))

ServerPage(coll, size, req) ==
    LET m == Matching(coll, req)
        ids == SubSeq(m, req.skip + 1, Min(req.skip + size, Len(m)))
    IN [j \in 1..Len(ids) |-> [id |-> ids[j], activity_at |-> coll[ids[j]]]]

\* has_more as a truthful server computes it.
ExactHasMore(coll, size, req) == Len(Matching(coll, req)) > req.skip + size

LastRequest == requests[Len(requests)]

\* The records are filtered truthfully; has_more may be anything.
ServerRespond ==
    \E has_more \in BOOLEAN :
        /\ pc = "await"
        /\ ReceivePage(ServerPage(collection, pageSize, LastRequest), has_more)
        /\ UNCHANGED <<serverVars, workflowVars>>

\* No traversal of a filtering server needs more requests than this.
RequestBudget == Len(collection) + 1

ServerIssue ==
    /\ Len(requests) < RequestBudget
    /\ IssueRequest
    /\ UNCHANGED <<serverVars, workflowVars>>

ServerFail == TransportFailure /\ UNCHANGED <<serverVars, workflowVars>>

InitHonest ==
    /\ FetcherInit
    /\ \E n \in 0..MaxRecords : collection \in NonIncreasing(Timestamps, n)
    /\ pageSize \in PageSizes
    /\ WorkflowIdle

NextHonest == ServerIssue \/ ServerRespond \/ ServerFail

SpecHonest == InitHonest /\ [][NextHonest]_vars

InitTermination ==
    /\ FetcherInit
    /\ \E n \in 0..MaxLive : collection \in NonIncreasing(Timestamps, n)
    /\ pageSize \in 1..(MaxLive + 1)
    /\ WorkflowIdle

\* client.get is a blocking call: it returns or raises, and the loop then
\* takes its next step.
SpecTermination == InitTermination /\ [][NextHonest]_vars /\ WF_vars(NextHonest)

\* ------------------------------------------------------------- workflow
\* run_followup_workflow: load_content_excel, analyze_call,
\* gpt_select_content, gpt_write_email.  The language model's answers are
\* inputs.

Transcripts == {"t1", "t2"}
Catalog == {"c1", "c2", "c3"}
LeadTypes == {"Full Transitioner", "Upgrader", "Switcher", "Advanced"}
\* analyze_call: the parsed JSON, or the fallback when parsing fails.
InsightsOutcomes == LeadTypes \cup {"Unknown"}

LoadContent ==
    /\ wfpc = "idle"
    /\ calls' = Append(calls, "load_content_excel")
    /\ wfpc' = "loaded"
    /\ UNCHANGED <<insights, crm_data, selected, email_text, transcript,
                   select_crm_arg>>

AnalyzeCall ==
    /\ wfpc = "loaded"
    /\ calls' = Append(calls, "analyze_call")
    /\ \E out \in InsightsOutcomes : insights' = <<out>>
    /\ wfpc' = "analyzed"
    /\ UNCHANGED <<crm_data, selected, email_text, transcript, select_crm_arg>>

\* Lines 270-273: crm_data = None, then gpt_select_content(transcript,
\* crm_data, content_catalog); an unparsable answer gives [].
SelectContent ==
    /\ wfpc = "analyzed"
    /\ crm_data' = None
    /\ select_crm_arg' = crm_data'
    /\ calls' = Append(calls, "gpt_select_content")
    /\ \E chosen \in SUBSET Catalog : selected' = <<chosen>>
    /\ wfpc' = "selected"
    /\ UNCHANGED <<insights, email_text, transcript>>

WriteEmail ==
    /\ wfpc = "selected"
    /\ calls' = Append(calls, "gpt_write_email")
    /\ email_text' = <<insights[1], selected[1]>>
    /\ wfpc' = "done"
    /\ UNCHANGED <<insights, crm_data, selected, transcript, select_crm_arg>>

InitWorkflow ==
    /\ FetcherInit
    /\ collection = <<>>
    /\ pageSize = 1
    /\ wfpc = "idle"
    /\ calls = <<>>
    /\ insights = None
    /\ crm_data = None
    /\ selected = None
    /\ email_text = None
    /\ transcript \in Transcripts
    /\ select_crm_arg = None

NextWorkflow ==
    (LoadContent \/ AnalyzeCall \/ SelectContent \/ WriteEmail)
        /\ UNCHANGED <<fetcherVars, serverVars>>

SpecWorkflow == InitWorkflow /\ [][NextWorkflow]_vars

\* =============================================================== claims

FirstN(s, n) == [i \in 1..Min(n, Len(s)) |-> s[i]]

RECURSIVE Flatten(_)
Flatten(rs) == IF rs = <<>> THEN <<>> ELSE rs[1].data \o Flatten(Tail(rs))

\* The timestamp bound a request carries, whichever filter it uses.
RequestBound(req) ==
    IF req.date_created__gt # None
    THEN req.date_created__gt[1]
    ELSE req.date_created__lt[1]

Ids(s) == {s[i].id : i \in 1..Len(s)}

Count(coll, t) == Cardinality({i \in 1..Len(coll) : coll[i] = t})

\* Records newer than the lookback horizon.
InWindow(coll) == Cardinality({i \in 1..Len(coll) : coll[i] > Horizon})

\* Every has_more so far was the truthful one.
HasMoreExact ==
    \A k \in 1..Len(responses) :
        ~responses[k].failed =>
            responses[k].has_more = ExactHasMore(collection, pageSize, requests[k])

\* C1: the value returned is exactly the first min(10, n) records of the
\* concatenation of the fetched pages, in fetch order; never more than 10.
C1_ReturnsFirstTen ==
    pc = "returned" =>
        /\ result = FirstN(Flatten(responses), MaxReturned)
        /\ Len(result) <= MaxReturned

C1_Witness ==
    /\ pc = "returned"
    /\ Len(Flatten(responses)) > MaxReturned
    /\ Len(result) = MaxReturned

\* C2: with a server that honours filter and skip (and reports has_more
\* truthfully), when more than a page of records share the timestamp at the
\* first page boundary, a finished traversal has accumulated every record of
\* the traversed range exactly once.
C2_NoLossNoDuplicate ==
    ( /\ pc = "returned"
      /\ HasMoreExact
      /\ all_activities # <<>>
      /\ Count(collection, LastActivityDate(responses[1].data)) > pageSize )
    => /\ Cardinality(Ids(all_activities)) = Len(all_activities)
       /\ \A i \in 1..Len(collection) :
              collection[i] >= LastActivityDate(all_activities)
                  => i \in Ids(all_activities)

\* C3 as stated: a lead with k records in the window, k below the page size,
\* gets exactly k records back after exactly one request.
C3_ReturnsAllBelowPage ==
    ( /\ Len(responses) >= 1
      /\ ~responses[1].failed
      /\ InWindow(collection) < pageSize
      /\ responses[1].has_more = ExactHasMore(collection, pageSize, requests[1]) )
    => /\ pc = "returned"
       /\ Len(requests) = 1
       /\ Len(result) = InWindow(collection)

\* C3 amended: a lead with k records newer than the horizon, k below the page
\* size, and a truthful has_more: exactly one request is issued and the
\* min(k, 10) most recent records are returned.
C3_ReturnsCappedBelowPage ==
    ( /\ Len(responses) >= 1
      /\ ~responses[1].failed
      /\ InWindow(collection) < pageSize
      /\ responses[1].has_more = ExactHasMore(collection, pageSize, requests[1]) )
    => /\ pc = "returned"
       /\ Len(requests) = 1
       /\ Len(result) = Min(InWindow(collection), MaxReturned)
       /\ \A i \in 1..Len(result) : result[i].id = i

C3_Witness ==
    /\ pc = "returned"
    /\ InWindow(collection) > MaxReturned
    /\ InWindow(collection) < pageSize
    /\ Len(requests) = 1
    /\ Len(result) = MaxReturned

\* C4: a failed page fetch is the last one: the invocation has failed, the
\* caller got none of the accumulated records, no request followed.
C4_FailClosed ==
    /\ \A i \in 1..Len(responses) :
           responses[i].failed =>
               /\ i = Len(responses)
               /\ Len(requests) = i
               /\ pc = "failed"
               /\ result = <<>>
    /\ pc = "failed" => responses[Len(responses)].failed

C4_Witness ==
    /\ pc = "failed"
    /\ pages = 2
    /\ Len(all_activities) >= 2
    /\ Len(requests) = 3

\* C5: request k+1 is issued if and only if response k was a non-empty page
\* with has_more; an empty first page gives an empty result after one
\* request; a continuing first page followed by an empty one gives the first
\* page's records after two requests.
C5_ContinuesIffMore ==
    /\ \A k \in 2..Len(requests) :
           /\ ~responses[k - 1].failed
           /\ responses[k - 1].data # <<>>
           /\ responses[k - 1].has_more
    /\ \A k \in 1..Len(responses) :
           (~responses[k].failed /\ responses[k].data # <<>> /\ responses[k].has_more)
               => (Len(requests) > k \/ pc = "loop")
    /\ (Len(responses) >= 1 /\ ~responses[1].failed /\ responses[1].data = <<>>)
           => (pc = "returned" /\ Len(requests) = 1 /\ result = <<>>)
    /\ ( /\ Len(responses) >= 2
         /\ ~responses[2].failed
         /\ responses[2].data = <<>> )
           => /\ pc = "returned"
              /\ Len(requests) = 2
              /\ result = FirstN(responses[1].data, MaxReturned)

C5_Witness ==
    /\ pc = "returned"
    /\ Len(requests) = 2
    /\ responses[1].has_more
    /\ Len(responses[1].data) = 3
    /\ responses[2].data = <<>>
    /\ result = responses[1].data

\* C6: against a server that honours filter and skip, whatever it says in
\* has_more, every invocation eventually returns or fails.
C6_Terminates == <>(pc \in {"returned", "failed"})

C6_Witness ==
    /\ pc = "returned"
    /\ Len(requests) >= 3
    /\ \A k \in 1..Len(responses) : responses[k].has_more
    /\ responses[Len(responses)].data = <<>>

\* C7: the workflow fetches the lead's CRM activities after analysing the
\* call and before selecting content, and content selection receives them.
C7_CrmRetrievedBeforeSelection ==
    wfpc \in {"selected", "done"} =>
        /\ \E i, j, k \in 1..Len(calls) :
               /\ i < j
               /\ j < k
               /\ calls[i] = "analyze_call"
               /\ calls[j] = "fetch_paginated_activities"
               /\ calls[k] = "gpt_select_content"
        /\ select_crm_arg # None

\* C8: the first request, and only the first, filters "greater than" (the
\* horizon); every later one filters "less than" only; none carries both.
C8_DirectionFlipsOnce ==
    \A k \in 1..Len(requests) :
        /\ k = 1 => /\ requests[k].date_created__gt = <<Horizon>>
                    /\ requests[k].date_created__lt = None
        /\ k > 1 => /\ requests[k].date_created__gt = None
                    /\ requests[k].date_created__lt # None

C8_Witness ==
    /\ Len(requests) = 3
    /\ requests[3].date_created__lt # None

\* C9: whenever two consecutive requests carry different reference
\* timestamps, the later one has skip offset 0 (a tie leaves the reference
\* unchanged and only then is the offset increased).
C9_SkipZeroOnNewReference ==
    \A k \in 1..(Len(requests) - 1) :
        RequestBound(requests[k]) # RequestBound(requests[k + 1])
            => requests[k + 1].skip = 0

\* C10: against a server that honours the strict filter, a non-zero skip is
\* sent only in the second request, after a first page whose first and last
\* timestamps are equal, together with a "less than" bound at that timestamp;
\* every later page ends strictly below the tie reference and resets the
\* offset.
C10_TieOnlyOnFirstPage ==
    /\ \A k \in 1..Len(requests) :
           requests[k].skip # 0 =>
               /\ k = 2
               /\ responses[1].data[1].activity_at = LastActivityDate(responses[1].data)
               /\ requests[k].date_created__lt = <<LastActivityDate(responses[1].data)>>
               /\ requests[k].skip = Len(responses[1].data)
    /\ \A k \in 2..Len(responses) :
           responses[k].data # <<>> =>
               LastActivityDate(responses[k].data) < requests[k].date_created__lt[1]
    /\ (Len(responses) >= 2 /\ pc = "loop") => offset = 0

C10_Witness ==
    /\ Len(requests) >= 3
    /\ requests[2].skip > 0
    /\ responses[2].data # <<>>

====
